---- MODULE Spec2Model ----
(***************************************************************************)
(* Model of packages/remix-stubs/src/createRemixStub.tsx: the RemixStub    *)
(* component (memory history, reducer state, subscription, context         *)
(* building) and the window.fetch interceptor installed by every render.   *)
(***************************************************************************)
EXTENDS Integers, Sequences, FiniteSets, TLC

(* ------------------------------ bounds -------------------------------- *)
\* number of RemixStub instances that may be mounted in the process
NumStubs == 2
\* total number of renders (of all instances) explored
MaxRenders == 3
\* total number of navigations (of all histories) explored
MaxNavs == 2

Stubs == 1..NumStubs

(* --------------------------- route objects ---------------------------- *)
\* A path or pathname is a sequence of segments: "/" is <<>>, "a/b" is <<"a","b">>.
Leaf(p, ld, el) ==
    [path |-> p, index |-> FALSE, children |-> <<>>, element |-> el,
     loader |-> ld, action |-> FALSE, CatchBoundary |-> FALSE, ErrorBoundary |-> ld]

Parent(p, kids, el) ==
    [path |-> p, index |-> FALSE, children |-> kids, element |-> el,
     loader |-> FALSE, action |-> TRUE, CatchBoundary |-> TRUE, ErrorBoundary |-> FALSE]

\* routes arrays handed to createRemixStub(routes): a flat one and a nested one
FlatRoutes == << Leaf(<<>>, TRUE, "Home"), Leaf(<<"a">>, FALSE, "A") >>

NestedRoutes == << Parent(<<"a">>, << Leaf(<<"b">>, TRUE, "B") >>, "A"),
                   Leaf(<<"x">>, FALSE, "X") >>

\* the component instance i is an instance of: createRemixStub(FlatRoutes) for odd
\* i, createRemixStub(NestedRoutes) for even i
RoutesFor(i) == IF i % 2 = 1 THEN FlatRoutes ELSE NestedRoutes

\* the pathnames navigations go to
PushTargets == { <<"a", "b">> }
ReplaceTargets == { <<"a">> }

(* ------------------- matchRoutes (@remix-run/router) ------------------ *)
\* The branches of a routes array in declaration order: every route, with the
\* chain of its ancestors and the joined path of the chain.
RECURSIVE Branches(_, _, _)
Branches(routes, chain, prefix) ==
    IF routes = <<>> THEN <<>>
    ELSE LET r    == Head(routes)
             here == Append(chain, r)
             full == prefix \o r.path
         IN  <<[chain |-> here, full |-> full]>>
               \o Branches(r.children, here, full)
               \o Branches(Tail(routes), chain, prefix)

\* matchRoutes(routes, pathname): the chain of the first branch whose joined
\* path is the pathname; <<>> stands for null (no match).
matchRoutes(routes, pathname) ==
    LET bs   == Branches(routes, <<>>, <<>>)
        hits == { k \in DOMAIN bs : bs[k].full = pathname }
    IN  IF hits = {} THEN <<>>
        ELSE bs[CHOOSE k \in hits : \A m \in hits : k <= m].chain

(* --------------------------- Context Builder -------------------------- *)
ManifestEntry(route) ==
    [id |-> route.path, path |-> route.path, hasAction |-> route.action,
     hasLoader |-> route.loader, module |-> "",
     hasCatchBoundary |-> route.CatchBoundary,
     hasErrorBoundary |-> route.ErrorBoundary]

\* routes.reduce over the routes array: one assignment manifest[route.path] per
\* element of the array, later elements overwriting earlier ones
RECURSIVE ReduceManifest(_, _)
ReduceManifest(routes, manifest) ==
    IF routes = <<>> THEN manifest
    ELSE LET route == Head(routes)
             keys  == DOMAIN manifest \cup {route.path}
             next  == [p \in keys |->
                          IF p = route.path THEN ManifestEntry(route)
                          ELSE manifest[p]]
         IN  ReduceManifest(Tail(routes), next)

createManifest(routes) ==
    [routes |-> ReduceManifest(routes, <<>>),
     entry |-> [imports |-> <<>>, module |-> ""], url |-> "", version |-> ""]

ModuleEntry(route) ==
    [CatchBoundary |-> route.CatchBoundary, ErrorBoundary |-> route.ErrorBoundary,
     default |-> route.element]

RECURSIVE ReduceModules(_, _)
ReduceModules(routes, modules) ==
    IF routes = <<>> THEN modules
    ELSE LET route == Head(routes)
             keys  == DOMAIN modules \cup {route.path}
             next  == [p \in keys |->
                          IF p = route.path THEN ModuleEntry(route)
                          ELSE modules[p]]
         IN  ReduceModules(Tail(routes), next)

createRouteModules(routes) == ReduceModules(routes, <<>>)

appState ==
    [trackBoundaries |-> TRUE, trackCatchBoundaries |-> TRUE,
     catchBoundaryRouteId |-> "null", renderBoundaryRouteId |-> "null",
     loaderBoundaryRouteId |-> "null", error |-> "undefined", catch |-> "undefined"]

createRemixContext(routes, currentLocation, initialLoaderData, initialActionData) ==
    [actionData |-> initialActionData,
     appState |-> appState,
     matches |-> matchRoutes(routes, currentLocation.pathname),
     routeData |-> initialLoaderData,
     manifest |-> createManifest(routes),
     routeModules |-> createRouteModules(routes)]

(* ------------------- memory history (history package) ----------------- *)
Clamp(n, lo, hi) == IF n < lo THEN lo ELSE IF n > hi THEN hi ELSE n

Loc(p) == [pathname |-> p]

\* historyRef.current == null
NoHistory == [id |-> 0, entries |-> <<>>, index |-> 0, action |-> "POP"]

\* the location of a history: entries[index], index counted from 0
LocationOf(h) == h.entries[h.index + 1]

\* createMemoryHistory({initialEntries, initialIndex}); id names the object
createMemoryHistory(initialEntries, initialIndex, id) ==
    LET n == Len(initialEntries)
    IN  [id |-> id,
         entries |-> [k \in 1..n |-> Loc(initialEntries[k])],
         index |-> Clamp(IF initialIndex.has THEN initialIndex.v ELSE n - 1, 0, n - 1),
         action |-> "POP"]

HistoryPush(h, to) ==
    [h EXCEPT !.action = "PUSH", !.index = h.index + 1,
              !.entries = Append(SubSeq(h.entries, 1, h.index + 1), Loc(to))]

HistoryReplace(h, to) ==
    [h EXCEPT !.action = "REPLACE", !.entries[h.index + 1] = Loc(to)]

HistoryGo(h, delta) ==
    [h EXCEPT !.action = "POP",
              !.index = Clamp(h.index + delta, 0, Len(h.entries) - 1)]

(* ------------------------- RemixStub instances ------------------------ *)
VARIABLES
    phase,       \* per instance: "unmounted", "mounted" or "gone"
    routesOf,    \* per instance: the routes array createRemixStub closed over
    mountOpts,   \* per instance: the props of the first render
    historyRef,  \* per instance: historyRef.current
    listenTo,    \* per instance: id of the history dispatch is listening to, 0 if none
    state,       \* per instance: the useReducer state {action, location}
    queue,       \* per instance: updates dispatched and not yet reduced by a render
    output,      \* per instance: what the last render handed to RemixEntry
    created,     \* per instance: number of createMemoryHistory calls
    navs,        \* per instance: number of navigations of its history
    events,      \* per instance: number of listener invocations (dispatch calls)
    applied,     \* per instance: number of runs of the reducer
    fetchSlot,   \* window.fetch: 0 is the real network function, k > 0 is patches[k]
    patches,     \* the closures monkeyPatchFetch has created, in creation order
    lastRender,  \* the instance that rendered most recently, 0 if none
    renders,     \* number of renders so far, of all instances
    stack        \* the frames of the window.fetch call in flight, outermost first

stubVars == <<phase, routesOf, mountOpts, historyRef, listenTo, state, queue, output,
              created, navs, events, applied>>
fetchVars == <<fetchSlot, patches, lastRender, renders>>
callVars == <<stack>>
vars == <<stubVars, fetchVars, callVars>>

None == [has |-> FALSE]
Some(x) == [has |-> TRUE, v |-> x]

\* props a test may pass to a RemixStub
EntryChoices == { None, Some(<< <<"x">> >>), Some(<< <<"a">>, <<"a", "b">> >>) }
IndexChoices == { None, Some(0), Some(5) }
LoaderDataChoices == { None }
Options ==
    [initialEntries : EntryChoices, initialIndex : IndexChoices,
     initialLoaderData : LoaderDataChoices]

\* default values of the destructured props
DefaultEntries(initialEntries) ==
    IF initialEntries.has THEN initialEntries.v ELSE << <<>> >>

DefaultLoaderData(initialLoaderData) ==
    IF initialLoaderData.has THEN initialLoaderData.v ELSE "{}"

\* mutant: the history is constructed by every render
historyRefCurrentEveryRender(ref, opts, id) ==
    createMemoryHistory(DefaultEntries(opts.initialEntries), opts.initialIndex, id)

\* mutant: an omitted initialIndex is passed on as 0
historyRefCurrentIndexZero(ref, opts, id) ==
    IF ref.id = 0
    THEN createMemoryHistory(DefaultEntries(opts.initialEntries),
                             IF opts.initialIndex.has THEN opts.initialIndex ELSE Some(0),
                             id)
    ELSE ref

\* if (historyRef.current == null) historyRef.current = createMemoryHistory(...)
historyRefCurrent(ref, opts, id) ==
    IF ref.id = 0
    THEN createMemoryHistory(DefaultEntries(opts.initialEntries), opts.initialIndex, id)
    ELSE ref

\* mutant: the reducer keeps the previous state
reducerKeep(prev, update) == prev

\* the reducer handed to useReducer
reducer(prev, update) == update

RECURSIVE Reduce(_, _)
Reduce(st, updates) ==
    IF updates = <<>> THEN st ELSE Reduce(reducer(st, Head(updates)), Tail(updates))

\* mutant: the context is built for the history's location
contextLocationOfHistory(st, history) == LocationOf(history)

\* the location handed to createRemixContext: state.location
contextLocation(st, history) == st.location

NoOptions == [initialEntries |-> None, initialIndex |-> None, initialLoaderData |-> None]
NoState == [action |-> "POP", location |-> Loc(<<>>)]
NoOutput == [navigator |-> 0]

\* mutant: the closure passes through to the function that was there before any patch
monkeyPatchFetchPristine(handler, slot) == [handler |-> handler, originalFetch |-> 0]

\* monkeyPatchFetch(handler): the closure captures window.fetch as it is now
monkeyPatchFetch(handler, slot) == [handler |-> handler, originalFetch |-> slot]

\* what installing the closure leaves in window.fetch
InstalledSlot(slot, closures) == Len(closures)

Init ==
    /\ phase = [i \in Stubs |-> "unmounted"]
    /\ routesOf = [i \in Stubs |-> <<>>]
    /\ mountOpts = [i \in Stubs |-> NoOptions]
    /\ historyRef = [i \in Stubs |-> NoHistory]
    /\ listenTo = [i \in Stubs |-> 0]
    /\ state = [i \in Stubs |-> NoState]
    /\ queue = [i \in Stubs |-> <<>>]
    /\ output = [i \in Stubs |-> NoOutput]
    /\ created = [i \in Stubs |-> 0]
    /\ navs = [i \in Stubs |-> 0]
    /\ events = [i \in Stubs |-> 0]
    /\ applied = [i \in Stubs |-> 0]
    /\ fetchSlot = 0
    /\ patches = <<>>
    /\ lastRender = 0
    /\ renders = 0
    /\ stack = <<>>

\* One run of the RemixStub function body for instance i with props opts:
\* st is the state useReducer returns for this render.
RenderBody(i, routes, opts, first) ==
    LET history == historyRefCurrent(historyRef[i], opts, created[i] + 1)
        st == IF first
              THEN [action |-> history.action, location |-> LocationOf(history)]
              ELSE Reduce(state[i], queue[i])
        remixContext == createRemixContext(routes, contextLocation(st, history),
                            DefaultLoaderData(opts.initialLoaderData), "undefined")
        closures == Append(patches, monkeyPatchFetch(i, fetchSlot))
    IN  /\ historyRef' = [historyRef EXCEPT ![i] = history]
        /\ created' = [created EXCEPT ![i] = IF history.id = historyRef[i].id
                                             THEN @ ELSE @ + 1]
        /\ state' = [state EXCEPT ![i] = st]
        /\ applied' = [applied EXCEPT ![i] = @ + Len(queue[i])]
        /\ queue' = [queue EXCEPT ![i] = <<>>]
        /\ output' = [output EXCEPT ![i] =
                         [context |-> remixContext, action |-> st.action,
                          location |-> st.location, navigator |-> history.id]]
        /\ patches' = closures
        /\ fetchSlot' = InstalledSlot(fetchSlot, closures)
        /\ lastRender' = i
        /\ renders' = renders + 1

\* first render of instance i, with props drawn from props
Mount(i, props) ==
    /\ phase[i] = "unmounted"
    /\ renders < MaxRenders
    /\ \E opts \in props :
          /\ routesOf' = [routesOf EXCEPT ![i] = RoutesFor(i)]
          /\ mountOpts' = [mountOpts EXCEPT ![i] = opts]
          /\ RenderBody(i, RoutesFor(i), opts, TRUE)
    /\ phase' = [phase EXCEPT ![i] = "mounted"]
    /\ UNCHANGED <<listenTo, navs, events, callVars>>

\* React.useLayoutEffect(() => history.listen(dispatch), [history]): runs after
\* the first render, and again (after its cleanup) when history is another object
LayoutEffect(i) ==
    /\ phase[i] = "mounted"
    /\ listenTo[i] # historyRef[i].id
    /\ listenTo' = [listenTo EXCEPT ![i] = historyRef[i].id]
    /\ UNCHANGED <<phase, routesOf, mountOpts, historyRef, state, queue, output,
                   created, navs, events, applied, fetchVars, callVars>>

\* a later render: new props from the parent, or the re-render a dispatch scheduled
Rerender(i, props) ==
    /\ phase[i] = "mounted"
    /\ listenTo[i] = historyRef[i].id
    /\ renders < MaxRenders
    /\ \E opts \in props : RenderBody(i, routesOf[i], opts, FALSE)
    /\ UNCHANGED <<phase, routesOf, mountOpts, listenTo, navs, events, callVars>>

\* the listener history.listen registered: dispatch(update)
Notify(i, h) ==
    IF listenTo[i] = h.id
    THEN /\ queue' = [queue EXCEPT ![i] =
                         Append(@, [action |-> h.action, location |-> LocationOf(h)])]
         /\ events' = [events EXCEPT ![i] = @ + 1]
    ELSE UNCHANGED <<queue, events>>

RECURSIVE SumTo(_, _)
SumTo(f, n) == IF n = 0 THEN 0 ELSE f[n] + SumTo(f, n - 1)

\* a navigation through the navigator handed to RemixEntry
Navigate(i) ==
    /\ phase[i] = "mounted"
    /\ SumTo(navs, NumStubs) < MaxNavs
    /\ \E h \in { HistoryPush(historyRef[i], to) : to \in PushTargets }
             \cup { HistoryReplace(historyRef[i], to) : to \in ReplaceTargets }
             \cup { HistoryGo(historyRef[i], d) : d \in {-1, 1} } :
          /\ historyRef' = [historyRef EXCEPT ![i] = h]
          /\ Notify(i, h)
    /\ navs' = [navs EXCEPT ![i] = @ + 1]
    /\ UNCHANGED <<phase, routesOf, mountOpts, listenTo, state, output, created,
                   applied, fetchVars, callVars>>

\* mutant: the unmount of the instance whose closure is installed restores the
\* function that closure captured
SlotAfterUnmountRestore(i, slot) ==
    IF slot > 0 /\ patches[slot].handler = i THEN patches[slot].originalFetch ELSE slot

\* what an unmount leaves in window.fetch: nothing restores it
SlotAfterUnmount(i, slot) == slot

\* unmount: the layout effect's cleanup (the unlisten function) runs, and the
\* instance's ref, reducer state and last output are discarded with it
Unmount(i) ==
    /\ phase[i] = "mounted"
    /\ listenTo[i] = historyRef[i].id
    /\ phase' = [phase EXCEPT ![i] = "gone"]
    /\ listenTo' = [listenTo EXCEPT ![i] = 0]
    /\ historyRef' = [historyRef EXCEPT ![i] = NoHistory]
    /\ state' = [state EXCEPT ![i] = NoState]
    /\ queue' = [queue EXCEPT ![i] = <<>>]
    /\ output' = [output EXCEPT ![i] = NoOutput]
    /\ mountOpts' = [mountOpts EXCEPT ![i] = NoOptions]
    /\ events' = [events EXCEPT ![i] = 0]
    /\ applied' = [applied EXCEPT ![i] = 0]
    /\ fetchSlot' = SlotAfterUnmount(i, fetchSlot)
    /\ UNCHANGED <<routesOf, created, navs, patches, lastRender, renders, callVars>>

(* ------------------------ the fetch interceptor ----------------------- *)
\* the (input, init) pairs callers pass: fetch("/a") and
\* fetch("https://example.com/x", {method: "POST"})
Requests == { <<"/a", "undefined">>, <<"https://example.com/x", "{method:POST}">> }

Val(type, status, from) == [type |-> type, status |-> status, from |-> from]
NoVal == Val("none", 0, "none")

\* what awaiting handler.queryRoute(request) can produce
HandlerOutcomes ==
    { [kind |-> "return", val |-> Val("Response", 200, "handler")] }
    \cup { [kind |-> "throw", val |-> Val("Response", st, "handler")] :
              st \in {404, 405, 500} }
    \cup { [kind |-> "throw", val |-> Val("Object", 404, "handler")],
           [kind |-> "throw", val |-> Val("Error", 0, "handler")] }

\* new Request(input, init) throws before the try block is entered
RequestFailure == [kind |-> "norequest", val |-> Val("TypeError", 0, "Request")]

\* what the real network function can produce
NetworkResults ==
    { [kind |-> "resolve", val |-> Val("Response", 200, "network")],
      [kind |-> "reject", val |-> Val("TypeError", 0, "network")] }

NoOutcome == [kind |-> "none", val |-> NoVal]
Pending == [kind |-> "pending", val |-> NoVal]

\* a call of function fn (0: the real network function, k > 0: patches[k])
Frame(fn, input, init) ==
    [fn |-> fn, input |-> input, init |-> init, q |-> NoOutcome, res |-> Pending]

\* the default value of the interceptor's init parameter
DefaultInit(init) == IF init = "undefined" THEN "{}" ELSE init

\* mutant: only 404 passes through
InterceptorDecision404Only(outcome) ==
    IF outcome.kind = "return" THEN "return"
    ELSE IF outcome.val.type = "Response" /\ outcome.val.status = 404
         THEN "passthrough"
         ELSE "throw"

\* mutant: every thrown Response passes through
InterceptorDecisionAnyResponse(outcome) ==
    IF outcome.kind = "return" THEN "return"
    ELSE IF outcome.val.type = "Response" THEN "passthrough" ELSE "throw"

\* mutant: the original function is called whatever the handler produced
InterceptorDecisionAlwaysOriginal(outcome) == "passthrough"

\* the try/catch of the interceptor: what it does with the handler's outcome
InterceptorDecision(outcome) ==
    IF outcome.kind = "return" THEN "return"
    ELSE IF outcome.val.type = "Response"
         THEN IF outcome.val.status = 404 \/ outcome.val.status = 405
              THEN "passthrough"
              ELSE "throw"
         ELSE "throw"

Top == stack[Len(stack)]

\* a caller calls window.fetch(input, init)
Fetch ==
    /\ stack = <<>>
    /\ \E rq \in Requests : stack' = << Frame(fetchSlot, rq[1], rq[2]) >>
    /\ UNCHANGED <<stubVars, fetchVars>>

\* the body of the closure patches[Top.fn], up to its return, throw or call of
\* originalFetch
Interceptor ==
    /\ stack # <<>>
    /\ Top.fn > 0
    /\ Top.q.kind = "none"
    /\ \E outcome \in HandlerOutcomes \cup {RequestFailure} :
          LET n == Len(stack)
              init == DefaultInit(Top.init)
              decision == IF outcome.kind = "norequest" THEN "throw"
                          ELSE InterceptorDecision(outcome)
              done(r) == [stack EXCEPT ![n].q = outcome, ![n].res = r]
          IN  stack' =
                CASE decision = "return" ->
                       done([kind |-> "resolve", val |-> outcome.val])
                  [] decision = "throw" ->
                       done([kind |-> "reject", val |-> outcome.val])
                  [] decision = "passthrough" ->
                       Append([stack EXCEPT ![n].q = outcome],
                              Frame(patches[Top.fn].originalFetch, Top.input, init))
    /\ UNCHANGED <<stubVars, fetchVars>>

\* the real network function runs
RealFetch ==
    /\ stack # <<>>
    /\ Top.fn = 0
    /\ Top.res.kind = "pending"
    /\ \E r \in NetworkResults : stack' = [stack EXCEPT ![Len(stack)].res = r]
    /\ UNCHANGED <<stubVars, fetchVars>>

\* return originalFetch(input, init): the closure's promise settles as the
\* promise of originalFetch does
Settle ==
    /\ \E d \in 1..(Len(stack) - 1) :
          /\ stack[d].res.kind = "pending"
          /\ stack[d + 1].res.kind # "pending"
          /\ stack' = [stack EXCEPT ![d].res = stack[d + 1].res]
    /\ UNCHANGED <<stubVars, fetchVars>>

\* the caller's await ends
Finish ==
    /\ stack # <<>>
    /\ stack[1].res.kind # "pending"
    /\ stack' = <<>>
    /\ UNCHANGED <<stubVars, fetchVars>>

NoneMounted == \A j \in Stubs : phase[j] # "mounted"

\* The instances as test cases render them, one at a time, with any props: renders,
\* subscription, navigation, unmount.
Next ==
    \/ \E i \in Stubs : NoneMounted /\ Mount(i, Options)
    \/ \E i \in Stubs : LayoutEffect(i)
    \/ \E i \in Stubs : Rerender(i, Options)
    \/ \E i \in Stubs : Navigate(i)
    \/ \E i \in Stubs : Unmount(i)

Spec == Init /\ [][Next]_vars

DefaultOptions ==
    { [initialEntries |-> None, initialIndex |-> None, initialLoaderData |-> None] }

\* Instances mounted side by side with the default props: renders, subscription,
\* navigation and unmounts in any interleaving.
NextSlot ==
    \/ \E i \in Stubs : Mount(i, DefaultOptions)
    \/ \E i \in Stubs : LayoutEffect(i)
    \/ \E i \in Stubs : Rerender(i, DefaultOptions)
    \/ \E i \in Stubs : Navigate(i)
    \/ \E i \in Stubs : Unmount(i)

SpecSlot == Init /\ [][NextSlot]_vars

\* The interceptor: instances mounted side by side with the default props; renders
\* install the closures, calls of window.fetch run through them. A call reads
\* window.fetch and the closures only, so the instances are not navigated here.
NextFetch ==
    \/ \E i \in Stubs : Mount(i, DefaultOptions)
    \/ \E i \in Stubs : LayoutEffect(i)
    \/ \E i \in Stubs : Rerender(i, DefaultOptions)
    \/ \E i \in Stubs : Unmount(i)
    \/ Fetch
    \/ Interceptor
    \/ RealFetch
    \/ Settle
    \/ Finish

SpecFetch == Init /\ [][NextFetch]_vars

(* ------------------------------ claims -------------------------------- *)
Mounted(i) == phase[i] = "mounted"
Subscribed(i) == Mounted(i) /\ listenTo[i] = historyRef[i].id
Frames == DOMAIN stack
Unroutable(q) ==
    q.kind = "throw" /\ q.val.type = "Response" /\ q.val.status \in {404, 405}
Settled(d) == stack[d].res.kind # "pending"
Current(h) == [action |-> h.action, location |-> LocationOf(h)]
Last(seq) == seq[Len(seq)]
Range(seq) == { seq[k] : k \in DOMAIN seq }

\* number of route objects of a routes array, at any nesting depth
RECURSIVE CountNodes(_)
CountNodes(routes) ==
    IF routes = <<>> THEN 0
    ELSE 1 + CountNodes(Head(routes).children) + CountNodes(Tail(routes))

\* C1 as stated: a frame whose handler threw a Response of status 404 or 405 has
\* called the function its closure captured with the input and the init its own
\* caller passed, settles as that call settles, and does not surface the failure.
C1_OriginalInit ==
    \A d \in Frames :
        Unroutable(stack[d].q) =>
            /\ d < Len(stack)
            /\ stack[d + 1].fn = patches[stack[d].fn].originalFetch
            /\ stack[d + 1].input = stack[d].input
            /\ stack[d + 1].init = stack[d].init
            /\ Settled(d) => /\ Settled(d + 1)
                             /\ stack[d].res = stack[d + 1].res
                             /\ ~Unroutable([kind |-> "throw", val |-> stack[d].res.val])

\* C1 amended: the same, the captured function being called with the input and
\* with the interceptor's init parameter: the init passed, or an empty object
\* when none was passed.
C1_Passthrough ==
    \A d \in Frames :
        Unroutable(stack[d].q) =>
            /\ d < Len(stack)
            /\ stack[d + 1].fn = patches[stack[d].fn].originalFetch
            /\ stack[d + 1].input = stack[d].input
            /\ stack[d + 1].init = DefaultInit(stack[d].init)
            /\ Settled(d) => /\ Settled(d + 1)
                             /\ stack[d].res = stack[d + 1].res
                             /\ ~Unroutable([kind |-> "throw", val |-> stack[d].res.val])

\* a call made without init whose handler threw 404: the real network function
\* was called with an empty init, and the call settled with what it returned
C1_Witness ==
    /\ Len(stack) = 2
    /\ stack[1].init = "undefined"
    /\ stack[2].init = "{}"
    /\ stack[1].q.kind = "throw" /\ stack[1].q.val.status = 404
    /\ stack[2].fn = 0
    /\ stack[1].res.kind = "resolve" /\ stack[1].res.val.from = "network"

\* C2: a frame whose handler threw anything but a Response of status 404 or 405
\* rejects with that very value and has called no function.
C2_Rethrow ==
    \A d \in Frames :
        (stack[d].q.kind = "throw" /\ ~Unroutable(stack[d].q)) =>
            /\ d = Len(stack)
            /\ stack[d].res = [kind |-> "reject", val |-> stack[d].q.val]

\* a second interceptor in the chain whose handler threw a Response of status 500
C2_Witness ==
    /\ Len(stack) = 2
    /\ stack[2].fn > 0
    /\ stack[2].q.kind = "throw" /\ stack[2].q.val.type = "Response"
    /\ stack[2].q.val.status = 500
    /\ stack[1].res.kind = "reject" /\ stack[1].res.val.status = 500

\* C3: a frame whose handler returned resolves with that response and has called
\* no function: neither the captured one nor an interceptor installed earlier.
C3_HandlerAnswers ==
    \A d \in Frames :
        stack[d].q.kind = "return" =>
            /\ d = Len(stack)
            /\ stack[d].res = [kind |-> "resolve", val |-> stack[d].q.val]

\* the newest of three interceptors answered the call
C3_Witness ==
    /\ Len(patches) = 3
    /\ Len(stack) = 1
    /\ stack[1].fn = 3
    /\ stack[1].q.kind = "return"
    /\ stack[1].res.kind = "resolve" /\ stack[1].res.val.from = "handler"

C4_Counts ==
    \A i \in Stubs :
        Mounted(i) =>
            /\ events[i] = applied[i] + Len(queue[i])
            /\ (Subscribed(i) /\ queue[i] = <<>> /\ events[i] > 0) =>
                   /\ state[i] = Current(historyRef[i])
                   /\ output[i].action = historyRef[i].action
                   /\ output[i].location = LocationOf(historyRef[i])

C4_Dispatch ==
    \A i \in Stubs :
        (Subscribed(i) /\ navs'[i] = navs[i] + 1) =>
            queue'[i] = Append(queue[i], Current(historyRef'[i]))

\* C4: a navigation of a subscribed instance dispatches exactly one update, the
\* event's {action, location}; every update dispatched is reduced exactly once, by
\* the next render; and once the updates are reduced the state and the rendered
\* action and location are the history's.
C4_OneUpdatePerNavigation == []C4_Counts /\ [][C4_Dispatch]_vars

\* two navigations of a subscribed instance, both reduced, the last a push
C4_Witness ==
    \E i \in Stubs :
        /\ Subscribed(i)
        /\ events[i] = 2 /\ applied[i] = 2
        /\ state[i].action = "PUSH"
        /\ output[i].location.pathname = <<"a", "b">>

\* C5: until an update is reduced, the state's location and the rendered location
\* of an instance mounted without initialIndex are the last entry of
\* initialEntries, and "/" when initialEntries was omitted too.
C5_StartsAtLastEntry ==
    \A i \in Stubs :
        (Mounted(i) /\ applied[i] = 0 /\ ~mountOpts[i].initialIndex.has) =>
            LET first == IF mountOpts[i].initialEntries.has
                         THEN Last(mountOpts[i].initialEntries.v)
                         ELSE <<>>
            IN  /\ state[i].location.pathname = first
                /\ output[i].location.pathname = first

\* an instance mounted with two entries and no index, rendered at the second
C5_Witness ==
    \E i \in Stubs :
        /\ Mounted(i) /\ applied[i] = 0
        /\ mountOpts[i].initialEntries.has /\ ~mountOpts[i].initialIndex.has
        /\ Len(mountOpts[i].initialEntries.v) = 2
        /\ output[i].location.pathname = <<"a", "b">>

\* C6: the matches of the context of the last render are what matchRoutes gives
\* for the component's routes and the pathname of the state's location, which is
\* the location rendered.
C6_MatchesOfCurrentLocation ==
    \A i \in Stubs :
        Mounted(i) =>
            /\ output[i].location = state[i].location
            /\ output[i].context.matches =
                   matchRoutes(RoutesFor(i), state[i].location.pathname)

\* a re-render after a navigation that matches a nested route, in an instance
\* whose history moved on before it subscribed
C6_Witness ==
    \E i \in Stubs :
        /\ Subscribed(i) /\ applied[i] > 0 /\ navs[i] > events[i]
        /\ Len(output[i].context.matches) = 2
        /\ state[i].location.pathname = <<"a", "b">>

\* C7: the manifest and the route modules of the context hold one entry per
\* route object of the tree, at any depth, and an entry for every matched route.
C7_EntryPerRouteNode ==
    \A i \in Stubs :
        Mounted(i) =>
            LET ctx == output[i].context
            IN  /\ Cardinality(DOMAIN ctx.manifest.routes) = CountNodes(RoutesFor(i))
                /\ Cardinality(DOMAIN ctx.routeModules) = CountNodes(RoutesFor(i))
                /\ \A r \in Range(ctx.matches) :
                       /\ r.path \in DOMAIN ctx.manifest.routes
                       /\ r.path \in DOMAIN ctx.routeModules

\* C8: once an instance has rendered, window.fetch is never the real network
\* function again: it is the closure the most recent render created, whose handler
\* is that of the instance that rendered last, mounted or not.
C8_LastInstallerWins ==
    renders > 0 =>
        /\ fetchSlot # 0
        /\ fetchSlot = Len(patches)
        /\ patches[fetchSlot].handler = lastRender

\* the instance that rendered last is unmounted, after a navigation, while
\* another instance is still mounted
C8_Witness ==
    /\ lastRender # 0
    /\ phase[lastRender] = "gone"
    /\ navs[lastRender] > 0
    /\ \E j \in Stubs : Mounted(j)
    /\ fetchSlot = Len(patches)

C9_Once ==
    \A i \in Stubs :
        /\ created[i] <= 1
        /\ Mounted(i) =>
              /\ created[i] = 1
              /\ historyRef[i].id = 1
              /\ output[i].navigator = 1
              /\ listenTo[i] \in {0, 1}
              /\ navs[i] = 0 =>
                    historyRef[i] =
                        createMemoryHistory(DefaultEntries(mountOpts[i].initialEntries),
                                            mountOpts[i].initialIndex, 1)

C9_Kept ==
    \A i \in Stubs :
        (Mounted(i) /\ phase'[i] = "mounted" /\ navs'[i] = navs[i]) =>
            historyRef'[i] = historyRef[i]

\* C9: an instance constructs its history once, at the first render and from that
\* render's props; every later render leaves the history as it is and hands the
\* same object to RemixEntry, and the subscription is to that object.
C9_HistoryConstructedOnce == []C9_Once /\ [][C9_Kept]_vars

\* an instance re-rendered after two navigations, its history still the first one
C9_Witness ==
    \E i \in Stubs :
        /\ Subscribed(i)
        /\ created[i] = 1
        /\ navs[i] = 2 /\ applied[i] = 2
        /\ Len(historyRef[i].entries) > Len(DefaultEntries(mountOpts[i].initialEntries))

C10_Chain ==
    /\ Len(patches) = renders
    /\ \A k \in DOMAIN patches : patches[k].originalFetch = k - 1
    /\ \A d \in Frames :
          /\ stack[d].fn = stack[1].fn - (d - 1)
          /\ d < Len(stack) => Unroutable(stack[d].q)
          /\ stack[d].fn = 0 => d = Len(stack)

C10_Grows ==
    /\ Len(patches') >= Len(patches)
    /\ \A k \in DOMAIN patches : patches'[k] = patches[k]
    /\ renders' = renders + 1 =>
          /\ Len(patches') = Len(patches) + 1
          /\ Last(patches').originalFetch = fetchSlot

\* C10: every render appends one closure that passes through to what window.fetch
\* held at that moment, and no closure is ever removed or changed; a call runs
\* through the closures from the newest downwards, going one further only when
\* the handler threw a Response of status 404 or 405, and the real network
\* function runs at most once, after every closure below the first one called.
C10_InterceptorChain == []C10_Chain /\ [][C10_Grows]_vars

\* a call the newest handler rejected with 404 and the handler of an unmounted
\* instance, installed earlier, answered
C10_Witness ==
    /\ Len(stack) = 2
    /\ stack[1].fn = Len(patches)
    /\ stack[2].fn > 0
    /\ patches[stack[2].fn].handler # patches[stack[1].fn].handler
    /\ phase[patches[stack[2].fn].handler] = "gone"
    /\ stack[2].q.kind = "return"
    /\ stack[1].res.kind = "resolve"

====
